---- MODULE Spec2Model ----
(***************************************************************************)
(* Model of the nabs package.                                              *)
(*                                                                         *)
(* Spec: nabs.preprocessors.SuspendPreprocessor: one watcher, the signal   *)
(* it subscribes to, the hold-down workers it starts and one consumer      *)
(* stepping through the stream returned by __call__.                       *)
(* Threads: the notification context (Put / update), the hold-down         *)
(* workers (release_thread, which takes no lock) and the consumer.  Every  *)
(* action is one atomic step of one of them; update and msg_proc are       *)
(* atomic because they run under the watcher's RLock.                      *)
(*                                                                         *)
(* SpecBeam: the same watcher configured as a BeamSuspender.               *)
(* SpecBase: a watcher of the base class, should_suspend not overridden.   *)
(* SpecEGR:  nabs.good_data.EnsureGoodReads.                               *)
(* SpecDW:   nabs.preprocessors.DropWrapper.                               *)
(* SpecCC:   nabs.callbacks.CallbackCounterFuture.                         *)
(* Each specification moves the object of one class; the variables of the  *)
(* other classes stay as Init left them.                                   *)
(***************************************************************************)
EXTENDS Integers, Sequences, FiniteSets

\* ---------------------------------------------------------------- bounds
MaxLen == 2          \* longest upstream stream
MaxCells == 2        \* cells update may create after the constructor's one
MaxWorkers == 2      \* hold-down workers alive at once
MaxRuns == 2         \* streams wrapped, one after the other, by the watcher

\* ------------------------------------------------------------ vocabulary
Commands == {"sleep", "set"}
Values == {0, 1}
None == 0
\* the two watchers of the tests: commands omitted, and commands=['set']
CmdChoices == {[none |-> TRUE, of |-> {}], [none |-> FALSE, of |-> {"set"}]}
Plans == UNION {[1..n -> Commands] : n \in 0..MaxLen}

VARIABLES
    cmd,             \* self._cmd
    sigval,          \* the signal's current value
    subs,            \* the signal's live subscription ids
    subid,           \* self._subid
    suspend_active,  \* self._suspend_active
    suspend_ev,      \* self._suspend_ev.is_set()
    ok_future,       \* self._ok_future, a cell id
    done,            \* the cell ids whose future is done
    ncells,          \* cells created so far (ids 0 .. ncells-1)
    invalid,         \* set_result was called on a done cell (InvalidStateError)
    workers,         \* hold-down workers, counted by position
    pc,              \* the consumer's position
    plan,            \* the upstream stream being wrapped
    pos,             \* index of the next upstream instruction
    cur,             \* index of the upstream instruction being handled
    waitfut,         \* the cell captured by the last wait_for instruction
    emitted,         \* the instructions yielded downstream in this run
    run,             \* streams wrapped so far
    ended,           \* how the last consumption ended
    notes,           \* values delivered to update so far
    resusp,          \* a suspension began after the wait completed and
                     \* before the original instruction was re-emitted
    egr,             \* an EnsureGoodReads, its signal, threads and consumer
    dw,              \* a DropWrapper and its consumer
    cc,              \* a CallbackCounterFuture
    base             \* a SuspendPreprocessor of the base class

vars == <<cmd, sigval, subs, subid, suspend_active, suspend_ev, ok_future,
          done, ncells, invalid, workers, pc, plan, pos, cur, waitfut,
          emitted, run, ended, notes, resusp, egr, dw, cc, base>>

\* the objects of the other classes, which SuspendPreprocessor never touches
others == <<egr, dw, cc, base>>

watcher == <<suspend_ev, ok_future, ncells, workers>>
consumer == <<pc, plan, pos, cur, waitfut, emitted, run, ended>>

\* ------------------------------------------------------------- messages
UpMsg(i) == [src |-> "up", idx |-> i, cmd |-> plan[i]]
WaitMsg(f) == [src |-> "gen", idx |-> f, cmd |-> "wait_for"]

\* ------------------------------------------------------------ predicates
\* BeamSuspender(beam_stats): commands=('trigger', 'create', 'read')
BeamCommands == {"trigger", "create", "read"}
BeamCmd == [none |-> FALSE, of |-> BeamCommands]
\* min_beam=0.1, in tenths
MinBeamTenths == 1

\* NonZeroSuspender.should_suspend: return value
\* BeamSuspender.should_suspend: value < self.min_beam
should_suspend(value) ==
    IF cmd = BeamCmd THEN 10 * value < MinBeamTenths ELSE value # 0

should_resume(value) == ~should_suspend(value)

Watched_all(c) == TRUE

\* self._cmd is None or msg.command in self._cmd
Watched(c) == cmd.none \/ c \in cmd.of

msg_proc_no_done_check(c) == Watched(c) /\ ~suspend_active

\* _msg_proc: TRUE when it returns (new_gen(), None), FALSE for (None, None)
msg_proc(c) == Watched(c) /\ ok_future \notin done /\ ~suspend_active

NumWorkers == workers.sched + workers.waiting + workers.release

\* --------------------------------------------------------------- watcher
\* loop.run_in_executor(None, self._release_thread)
run_release_thread == workers' = [workers EXCEPT !.sched = @ + 1]

update_no_worker(value) ==
    IF suspend_ev
    THEN IF should_resume(value)
         THEN /\ suspend_ev' = FALSE
              /\ UNCHANGED <<ok_future, ncells, workers>>
         ELSE UNCHANGED watcher
    ELSE IF should_suspend(value)
         THEN /\ ok_future' = ncells
              /\ ncells' = ncells + 1
              /\ suspend_ev' = TRUE
              /\ workers' = [workers EXCEPT !.waiting = 0]
         ELSE UNCHANGED watcher

\* _update, under self._rlock.  Event.set() wakes every worker inside
\* Event.wait(): their wait returns True and they cancel.
update(value) ==
    IF suspend_ev
    THEN IF should_resume(value)
         THEN /\ suspend_ev' = FALSE
              /\ run_release_thread
              /\ UNCHANGED <<ok_future, ncells>>
         ELSE UNCHANGED watcher
    ELSE IF should_suspend(value)
         THEN /\ ok_future' = ncells
              /\ ncells' = ncells + 1
              /\ suspend_ev' = TRUE
              /\ workers' = [workers EXCEPT !.waiting = 0]
         ELSE UNCHANGED watcher

\* the bounds on cells and workers, as a guard on the notification
CanDeliver(value) ==
    /\ (suspend_ev /\ should_resume(value)) => NumWorkers < MaxWorkers
    /\ (~suspend_ev /\ should_suspend(value)) => ncells <= MaxCells

\* the window of the follow-up: the wait is over, the original not yet out
AfterWait == pc = "resumed" \/ (pc = "y_wait" /\ waitfut \in done)

\* Signal.put(value): store the value and run the subscribed callback
Put(value) ==
    /\ sigval' = value
    /\ IF subid # None
       THEN /\ CanDeliver(value)
            /\ update(value)
            /\ notes' = notes \cup {value}
            /\ resusp' = (resusp \/ (AfterWait /\ ~suspend_ev
                                     /\ should_suspend(value)))
       ELSE UNCHANGED <<watcher, notes, resusp>>
    /\ UNCHANGED <<cmd, subs, subid, suspend_active, done, invalid>>
    /\ UNCHANGED consumer
    /\ UNCHANGED others

\* _release_thread begins: Event.wait returns True at once if the flag is set
WorkerStart ==
    /\ workers.sched > 0
    /\ workers' = IF suspend_ev
                  THEN [workers EXCEPT !.sched = @ - 1]
                  ELSE [workers EXCEPT !.sched = @ - 1, !.waiting = @ + 1]
    /\ UNCHANGED <<cmd, sigval, subs, subid, suspend_active, suspend_ev,
                   ok_future, done, ncells, invalid, notes, resusp>>
    /\ UNCHANGED consumer
    /\ UNCHANGED others

\* Event.wait(timeout=self._sleep) times out and returns False
WorkerTimeout ==
    /\ workers.waiting > 0
    /\ workers' = [workers EXCEPT !.waiting = @ - 1, !.release = @ + 1]
    /\ UNCHANGED <<cmd, sigval, subs, subid, suspend_active, suspend_ev,
                   ok_future, done, ncells, invalid, notes, resusp>>
    /\ UNCHANGED consumer
    /\ UNCHANGED others

\* self._ok_future.set_result('ok'), on whatever cell is current by now
WorkerRelease ==
    /\ workers.release > 0
    /\ workers' = [workers EXCEPT !.release = @ - 1]
    /\ IF ok_future \in done
       THEN invalid' = TRUE /\ UNCHANGED done
       ELSE done' = done \cup {ok_future} /\ UNCHANGED invalid
    /\ UNCHANGED <<cmd, sigval, subs, subid, suspend_active, suspend_ev,
                   ok_future, ncells, notes, resusp>>
    /\ UNCHANGED consumer
    /\ UNCHANGED others

\* -------------------------------------------------------------- consumer
unsubscribe_skipped == UNCHANGED <<subs, subid>>

\* the finally block of __call__
unsubscribe ==
    IF subid # None
    THEN subs' = subs \ {subid} /\ subid' = None
    ELSE UNCHANGED <<subs, subid>>

\* the first next() on susp(plan): subscribe (the signal runs the new
\* callback once with its current value), then enter plan_mutator
Begin(p) ==
    /\ pc = "idle"
    /\ run < MaxRuns
    /\ run' = run + 1
    /\ plan' = p
    /\ pos' = 1
    /\ cur' = 0
    /\ waitfut' = 0
    /\ emitted' = << >>
    /\ ended' = "none"
    /\ resusp' = FALSE
    /\ pc' = "top"
    /\ IF subid = None
       THEN /\ subid' = run + 1
            /\ subs' = subs \cup {run + 1}
            /\ CanDeliver(sigval)
            /\ update(sigval)
            /\ notes' = notes \cup {sigval}
       ELSE UNCHANGED <<subid, subs, watcher, notes>>
    /\ UNCHANGED <<cmd, sigval, suspend_active, done, invalid>>
    /\ UNCHANGED others

AtYield == pc \in {"y_up", "y_orig"}

\* plan_mutator pulls the next upstream instruction and asks msg_proc
Advance ==
    /\ pc = "top" \/ AtYield
    /\ pos <= Len(plan)
    /\ cur' = pos
    /\ pos' = pos + 1
    /\ pc' = IF msg_proc(plan[pos]) THEN "newgen" ELSE "pass"
    /\ UNCHANGED <<cmd, sigval, subs, subid, suspend_active, done, invalid,
                   notes, resusp, plan, waitfut, emitted, run, ended>>
    /\ UNCHANGED watcher
    /\ UNCHANGED others

\* msg_proc returned (None, None): plan_mutator yields the instruction
Pass ==
    /\ pc = "pass"
    /\ emitted' = Append(emitted, UpMsg(cur))
    /\ pc' = "y_up"
    /\ UNCHANGED <<cmd, sigval, subs, subid, suspend_active, done, invalid,
                   notes, resusp, plan, pos, cur, waitfut, run, ended>>
    /\ UNCHANGED watcher
    /\ UNCHANGED others

\* new_gen starts: set the flag, build wait_for([self._ok_future]); the
\* wait_for instruction itself goes through msg_proc before it is yielded
NewGenStart ==
    /\ pc = "newgen"
    /\ suspend_active' = TRUE
    /\ waitfut' = ok_future
    /\ resusp' = FALSE
    /\ UNCHANGED <<cmd, sigval, subs, subid, done, invalid, notes, plan,
                   pos, cur, run, ended>>
    /\ UNCHANGED watcher
    /\ UNCHANGED others
    /\ IF msg_proc("wait_for")'
       THEN pc' = "newgen" /\ UNCHANGED emitted
       ELSE pc' = "y_wait" /\ emitted' = Append(emitted, WaitMsg(ok_future))

\* the consumer's wait on the captured cell is over; new_gen goes on
WaitDone ==
    /\ pc = "y_wait"
    /\ waitfut \in done
    /\ suspend_active' = FALSE
    /\ pc' = "resumed"
    /\ UNCHANGED <<cmd, sigval, subs, subid, done, invalid, notes, resusp,
                   plan, pos, cur, waitfut, emitted, run, ended>>
    /\ UNCHANGED watcher
    /\ UNCHANGED others

ReEmit_dropped ==
    /\ pc = "resumed"
    /\ pc' = "y_orig"
    /\ UNCHANGED <<cmd, sigval, subs, subid, suspend_active, done, invalid,
                   notes, resusp, plan, pos, cur, waitfut, emitted, run,
                   ended>>
    /\ UNCHANGED watcher
    /\ UNCHANGED others

\* new_gen's "yield msg": plan_mutator has seen msg, so no msg_proc
ReEmit ==
    /\ pc = "resumed"
    /\ emitted' = Append(emitted, UpMsg(cur))
    /\ pc' = "y_orig"
    /\ UNCHANGED <<cmd, sigval, subs, subid, suspend_active, done, invalid,
                   notes, resusp, plan, pos, cur, waitfut, run, ended>>
    /\ UNCHANGED watcher
    /\ UNCHANGED others

\* upstream is exhausted: plan_mutator returns, the finally block runs
Exhaust ==
    /\ pc = "top" \/ AtYield
    /\ pos > Len(plan)
    /\ unsubscribe
    /\ pc' = "idle"
    /\ ended' = "exhausted"
    /\ UNCHANGED <<cmd, sigval, suspend_active, done, invalid, notes,
                   resusp, plan, pos, cur, waitfut, emitted, run>>
    /\ UNCHANGED watcher
    /\ UNCHANGED others

\* an exception is thrown in at a yield; nothing catches it; finally runs
Throw ==
    /\ AtYield \/ pc = "y_wait"
    /\ unsubscribe
    /\ pc' = "idle"
    /\ ended' = "exception"
    /\ UNCHANGED <<cmd, sigval, suspend_active, done, invalid, notes,
                   resusp, plan, pos, cur, waitfut, emitted, run>>
    /\ UNCHANGED watcher
    /\ UNCHANGED others

\* the generator is closed at a yield (GeneratorExit); finally runs
Close ==
    /\ AtYield \/ pc = "y_wait"
    /\ unsubscribe
    /\ pc' = "idle"
    /\ ended' = "closed"
    /\ UNCHANGED <<cmd, sigval, suspend_active, done, invalid, notes,
                   resusp, plan, pos, cur, waitfut, emitted, run>>
    /\ UNCHANGED watcher
    /\ UNCHANGED others

\* ------------------------------------------------------- specification
\* SuspendPreprocessor.__init__ and the test fixture's signal
SuspInit(cmds) ==
    /\ cmd \in cmds
    /\ sigval \in Values
    /\ subs = {}
    /\ subid = None
    /\ suspend_active = FALSE
    /\ suspend_ev = FALSE
    /\ ok_future = 0
    /\ done = {0}
    /\ ncells = 1
    /\ invalid = FALSE
    /\ workers = [sched |-> 0, waiting |-> 0, release |-> 0]
    /\ pc = "idle"
    /\ plan = << >>
    /\ pos = 1
    /\ cur = 0
    /\ waitfut = 0
    /\ emitted = << >>
    /\ run = 0
    /\ ended = "none"
    /\ notes = {}
    /\ resusp = FALSE

\* no object of the other classes has been constructed
Absent == [pc |-> "absent"]
OthersAbsent == egr = Absent /\ dw = Absent /\ cc = Absent /\ base = Absent

Init == SuspInit(CmdChoices) /\ OthersAbsent

Next ==
    \/ \E value \in Values : Put(value)
    \/ WorkerStart
    \/ WorkerTimeout
    \/ WorkerRelease
    \/ \E p \in Plans : Begin(p)
    \/ Advance
    \/ Pass
    \/ NewGenStart
    \/ WaitDone
    \/ ReEmit
    \/ Exhaust
    \/ Throw
    \/ Close

Spec == Init /\ [][Next]_vars

TypeOK ==
    /\ cmd \in CmdChoices
    /\ sigval \in Values
    /\ subid \in 0..MaxRuns
    /\ suspend_active \in BOOLEAN
    /\ suspend_ev \in BOOLEAN
    /\ ok_future \in 0..MaxCells
    /\ done \subseteq 0..MaxCells
    /\ ncells \in 1..(MaxCells + 1)
    /\ NumWorkers <= MaxWorkers
    /\ pc \in {"idle", "top", "pass", "newgen", "y_up", "y_wait", "resumed",
               "y_orig"}
    /\ plan \in Plans
    /\ run \in 0..MaxRuns

\* ---------------------------------------------------------------- claims
Upstream(s) == SelectSeq(s, LAMBDA m : m.src = "up")
IsPrefixOfPlan(s) == s = [i \in 1..Len(s) |-> UpMsg(i)]
HasWait(s) == \E i \in DOMAIN s : s[i].cmd = "wait_for"
NeverSuspended == \A v \in notes : ~should_suspend(v)

\* C1: when no notification delivered to the watcher satisfies
\* should_suspend, the wrapped stream yields the upstream instructions
\* themselves, in order, nothing inserted, removed or substituted; consumed
\* to exhaustion it has yielded exactly the upstream stream.
C1_PassThrough ==
    NeverSuspended =>
        /\ IsPrefixOfPlan(emitted)
        /\ (ended = "exhausted" => Len(emitted) = Len(plan))

C1_Witness ==
    /\ ended = "exhausted"
    /\ Len(plan) = MaxLen
    /\ Len(emitted) = MaxLen
    /\ notes = {0}
    /\ run = MaxRuns

\* C2: a suspension sequence is, in this order, the pre_plan instruction
\* (null), the wait instruction, then the post_plan instruction (null), the
\* follow_plan instruction (null) and the original watched instruction.
C2_SpliceOrder ==
    \A i \in DOMAIN emitted :
        emitted[i].cmd = "wait_for" =>
            /\ i > 1
            /\ emitted[i - 1].cmd = "null"
            /\ (pc = "y_orig" /\ i < Len(emitted)) =>
                   /\ Len(emitted) >= i + 3
                   /\ emitted[i + 1].cmd = "null"
                   /\ emitted[i + 2].cmd = "null"
                   /\ emitted[i + 3].src = "up"

\* C3: the emitted instructions that come from upstream are always the
\* upstream instructions in their order, each once; when consumption ran
\* to exhaustion they are the whole upstream stream; everything else in the
\* output is a wait instruction spliced in right before an upstream one.
C3_UpstreamPreserved ==
    /\ IsPrefixOfPlan(Upstream(emitted))
    /\ (ended = "exhausted" => Len(Upstream(emitted)) = Len(plan))
    /\ \A i \in DOMAIN emitted :
           emitted[i].src # "up" =>
               /\ emitted[i].cmd = "wait_for"
               /\ (i < Len(emitted) => emitted[i + 1].src = "up")

C3_Witness ==
    /\ ended = "exhausted"
    /\ Len(plan) = MaxLen
    /\ HasWait(emitted)
    /\ Len(Upstream(emitted)) = MaxLen

\* C4: an upstream instruction whose command is not in the commands set is
\* passed through at once and unchanged, also while the cell is unresolved;
\* a suspension sequence starts only at an instruction whose command is in
\* the set, and it starts at every such instruction met while the cell is
\* unresolved and no sequence is active; with commands omitted that is
\* every instruction.
InSet(c) == cmd.none \/ c \in cmd.of
Fetch == pos' = pos + 1 /\ run' = run

C4_CommandFilter ==
    /\ [][(Fetch /\ ~InSet(plan[pos])) => pc' = "pass"]_vars
    /\ [][(pc = "pass" /\ pc' # "pass") =>
              (emitted' = Append(emitted, UpMsg(cur)) /\ pc' = "y_up")]_vars
    /\ [][(Fetch /\ InSet(plan[pos]) /\ ok_future \notin done
             /\ ~suspend_active) => pc' = "newgen"]_vars
    /\ [][(pc = "newgen" /\ pc' # "newgen") =>
              (emitted' = Append(emitted, WaitMsg(ok_future))
                 /\ InSet(plan[cur]))]_vars

C4_Witness ==
    /\ ~cmd.none
    /\ run = 1
    /\ notes = {1}
    /\ pc = "y_wait"
    /\ Len(emitted) = MaxLen
    /\ \A i \in 1..(MaxLen - 1) : emitted[i] = UpMsg(i) /\ plan[i] = "sleep"
    /\ emitted[MaxLen] = WaitMsg(ok_future)
    /\ plan[cur] = "set"
    /\ cur = MaxLen

C4_WitnessAll ==
    /\ cmd.none
    /\ notes = {1}
    /\ pc = "y_wait"
    /\ emitted = <<WaitMsg(ok_future)>>
    /\ plan[cur] = "sleep"

Blocked == pc = "y_wait" /\ waitfut \notin done
Unresolved == {c \in 0..(ncells - 1) : c \notin done}

\* C5: a consumer blocked in a suspension wait is unblocked once a resume
\* value's hold-down has elapsed with no further suspend-triggering value,
\* also when an earlier hold-down was cut short by a suspend-triggering
\* value: whenever the watcher is running, its cell is resolved and no
\* hold-down worker is left, the cell the consumer waits on is resolved.
C5_UnblockedAfterHoldDown ==
    (pc = "y_wait" /\ ~suspend_ev /\ ok_future \in done /\ NumWorkers = 0)
        => waitfut \in done

C5_Scenario ==
    /\ Blocked
    /\ ~suspend_ev
    /\ ok_future \in done
    /\ ok_future # waitfut
    /\ NumWorkers = 0
    /\ ~invalid

\* C6: whenever the watcher is Suspended (_suspend_ev set) its current cell
\* is unresolved: no hold-down worker resolves a cell after a later
\* suspend-triggering notification has been processed.
C6_SuspendedCellUnresolved == suspend_ev => ok_future \notin done

\* C7: at most one unresolved cell created by the watcher is outstanding.
C7_OneUnresolvedCell == Cardinality(Unresolved) <= 1

\* C8: set_result is never invoked on an already-resolved cell.
C8_ResolvedAtMostOnce == ~invalid

\* C8, second half: a resume-satisfying notification delivered while the
\* watcher is running (after the cell was resolved, or a second one during
\* the hold-down) changes no state of the watcher and starts no worker.
C8_ResumeWhileRunningNoOp ==
    [][(\E v \in Values : should_resume(v) /\ Put(v) /\ ~suspend_ev)
           => UNCHANGED <<watcher, done, invalid, suspend_active>>]_vars

\* C9: the watcher is subscribed exactly while a wrapped stream is being
\* consumed: it holds one subscription from the first next() on, however
\* often it is reused, and when consumption has ended (exhausted, exception
\* or close) it holds none and _subid is None.
C9_SubscriptionLifetime ==
    /\ Cardinality(subs) <= 1
    /\ pc = "idle" => (subid = None /\ subs = {})
    /\ pc # "idle" => (subid # None /\ subs = {subid})

C9_Witness ==
    /\ run = MaxRuns
    /\ pc = "idle"
    /\ ended = "closed"
    /\ emitted # << >>
    /\ emitted[Len(emitted)] = WaitMsg(waitfut)
    /\ waitfut \notin done
    /\ subid = None

\* C10: when a suspension begins after the wait of a suspension sequence
\* has completed and before the sequence has emitted what follows it, the
\* original instruction is not emitted until a new complete cycle has run
\* for that suspension.
C10_ReentrantCycle == (pc = "y_orig" /\ resusp) => ok_future \in done

(***************************************************************************)
(* nabs.good_data.EnsureGoodReads: one object, its boolean signal, the     *)
(* threads it starts and one consumer of the stream its __call__ returns.  *)
(***************************************************************************)
GCommands == {"create", "read", "save", "drop"}
GPlans == UNION {[1..n -> GCommands] : n \in 0..MaxLen}
suspects == <<cmd, sigval, subs, subid, suspend_active, suspend_ev,
              ok_future, done, ncells, invalid, workers, pc, plan, pos, cur,
              waitfut, emitted, run, ended, notes, resusp>>

\* EnsureGoodReads.__init__, before ok_sig.subscribe(self.ok_cb)
EgrNew(v, p) ==
    [sig |-> v, future |-> "None", not_ok_flag |-> FALSE,
     threads |-> [sched |-> 0, waiting |-> 0, release |-> 0],
     invalid |-> FALSE, msg_cache |-> << >>,
     plan |-> p, pos |-> 1, cur |-> 0, pc |-> "top", emitted |-> << >>]

GMsg(e, i) == [src |-> "up", idx |-> i, cmd |-> e.plan[i]]
EgrThreads(e) == e.threads.sched + e.threads.waiting + e.threads.release

\* ok_cb, under self.lock; Event.set() wakes the threads inside Event.wait()
ok_cb(e, value) ==
    IF value # 0
    THEN IF e.future # "None"
         THEN [e EXCEPT !.not_ok_flag = FALSE, !.threads.sched = @ + 1]
         ELSE e
    ELSE [e EXCEPT !.future = IF @ = "None" THEN "pending" ELSE @,
                   !.not_ok_flag = TRUE,
                   !.threads.waiting = 0]

\* the bound on threads, as a guard on the notification
EgrCanDeliver(e, value) ==
    (value # 0 /\ e.future # "None") => EgrThreads(e) < MaxWorkers

\* msg.command in ['trigger', 'create', 'read']
GoodCmd(c) == c \in {"trigger", "create", "read"}

\* msg_proc's effect on self.msg_cache
egr_cache(e, i) ==
    IF e.plan[i] = "save" THEN << >>
    ELSE IF GoodCmd(e.plan[i]) THEN Append(e.msg_cache, i)
    ELSE e.msg_cache

\* msg_proc returns (self.wait_and_retry, None): not self.ok_sig.get()
egr_retry(e, i) == GoodCmd(e.plan[i]) /\ e.sig = 0

\* ok_sig.put(value): store the value, run ok_cb
EgrPut(value) ==
    /\ EgrCanDeliver(egr, value)
    /\ egr' = ok_cb([egr EXCEPT !.sig = value], value)
    /\ UNCHANGED <<base, suspects, dw, cc>>

\* ok_thread begins: Event.wait returns True at once if the flag is set
EgrThreadStart ==
    /\ egr.threads.sched > 0
    /\ egr' = IF egr.not_ok_flag
              THEN [egr EXCEPT !.threads.sched = @ - 1]
              ELSE [egr EXCEPT !.threads.sched = @ - 1,
                               !.threads.waiting = @ + 1]
    /\ UNCHANGED <<base, suspects, dw, cc>>

\* not_ok_flag.wait(timeout=self.sleep_time) times out
EgrThreadTimeout ==
    /\ egr.threads.waiting > 0
    /\ egr' = [egr EXCEPT !.threads.waiting = @ - 1,
                          !.threads.release = @ + 1]
    /\ UNCHANGED <<base, suspects, dw, cc>>

\* self.future.set_result('Done')
EgrThreadRelease ==
    /\ egr.threads.release > 0
    /\ egr' = IF egr.future = "done"
              THEN [egr EXCEPT !.threads.release = @ - 1, !.invalid = TRUE]
              ELSE [egr EXCEPT !.threads.release = @ - 1, !.future = "done"]
    /\ UNCHANGED <<base, suspects, dw, cc>>

\* plan_mutator pulls the next upstream instruction and asks msg_proc
EgrAdvance ==
    /\ egr.pc \in {"top", "y_up"}
    /\ egr.pos <= Len(egr.plan)
    /\ egr' = [egr EXCEPT !.cur = egr.pos,
                          !.pos = egr.pos + 1,
                          !.msg_cache = egr_cache(egr, egr.pos),
                          !.pc = IF egr_retry(egr, egr.pos)
                                 THEN "retry" ELSE "pass"]
    /\ UNCHANGED <<base, suspects, dw, cc>>

\* msg_proc returned (None, None): plan_mutator yields the instruction
EgrPass ==
    /\ egr.pc = "pass"
    /\ egr' = [egr EXCEPT !.emitted = Append(@, GMsg(egr, egr.cur)),
                          !.pc = "y_up"]
    /\ UNCHANGED <<base, suspects, dw, cc>>

\* msg_proc returned the bound method self.wait_and_retry, not the generator
\* wait_and_retry(): plan_mutator's plan_stack[-1].send(ret) raises
\* AttributeError, which is thrown into the upstream plan and ends the stream
EgrSendFails ==
    /\ egr.pc = "retry"
    /\ egr' = [egr EXCEPT !.pc = "raised"]
    /\ UNCHANGED <<base, suspects, dw, cc>>

\* upstream is exhausted
EgrExhaust ==
    /\ egr.pc \in {"top", "y_up"}
    /\ egr.pos > Len(egr.plan)
    /\ egr' = [egr EXCEPT !.pc = "done"]
    /\ UNCHANGED <<base, suspects, dw, cc>>

\* EnsureGoodReads(ok_sig)(plan): subscribing runs ok_cb with the value
InitEGR ==
    /\ SuspInit({[none |-> TRUE, of |-> {}]})
    /\ base = Absent
    /\ sigval = 0
    /\ egr \in {ok_cb(EgrNew(v, p), v) : v \in Values, p \in GPlans}
    /\ dw = Absent
    /\ cc = Absent

NextEGR ==
    \/ \E value \in Values : EgrPut(value)
    \/ EgrThreadStart
    \/ EgrThreadTimeout
    \/ EgrThreadRelease
    \/ EgrAdvance
    \/ EgrPass
    \/ EgrSendFails
    \/ EgrExhaust

SpecEGR == InitEGR /\ [][NextEGR]_vars

EgrEnded == egr.pc \in {"done", "raised"}
EgrEmittedIdx == {egr.emitted[i].idx : i \in DOMAIN egr.emitted}
EgrCached == {egr.msg_cache[i] : i \in DOMAIN egr.msg_cache}

\* C11: the trigger/create/read instructions held in the replay buffer when
\* a suspension is detected, the detecting one included, are all emitted
\* (again) downstream: consumption never ends with a buffered instruction
\* that was not emitted.
C11_BufferedAreReEmitted == EgrEnded => EgrCached \subseteq EgrEmittedIdx

\* C12: msg_cache holds only instructions processed after the most recent
\* save or drop of the stream.
C12_CacheAfterLastMarker ==
    \A k \in EgrCached :
        \A j \in 1..egr.cur :
            egr.plan[j] \in {"save", "drop"} => k > j

\* C13: after a suspension the nested replays terminate and the wrapped
\* stream continues with the remaining upstream instructions: when
\* consumption has ended, every upstream instruction has been emitted.
C13_StreamContinues ==
    EgrEnded => (1..Len(egr.plan)) \subseteq EgrEmittedIdx

\* C14: for every suspension, a low notification received while running
\* (not_ok_flag clear) leaves the watcher with an unresolved cell.
C14_LowLeavesUnresolvedCell ==
    [][(EgrPut(0) /\ ~egr.not_ok_flag) => egr'.future = "pending"]_vars


\* ----------------------------------------------------------- BeamSuspender
\* BeamSuspender is a SuspendPreprocessor with commands fixed to
\* trigger/create/read and should_suspend(value) = value < min_beam; the
\* streams it wraps are made of event bundles
BundleCommands == {"trigger", "create", "read", "save"}
BeamPlans == UNION {[1..n -> BundleCommands] : n \in 0..MaxLen}

InitBeam == SuspInit({BeamCmd}) /\ OthersAbsent

NextBeam ==
    \/ \E value \in Values : Put(value)
    \/ WorkerStart
    \/ WorkerTimeout
    \/ WorkerRelease
    \/ \E p \in BeamPlans : Begin(p)
    \/ Advance
    \/ Pass
    \/ NewGenStart
    \/ WaitDone
    \/ ReEmit
    \/ Exhaust
    \/ Throw
    \/ Close

SpecBeam == InitBeam /\ [][NextBeam]_vars

\* the upstream instructions of the bundle that is open when instruction i
\* is handled: the watched ones since the last save, i included
OpenBundle(i) ==
    {j \in 1..i : /\ plan[j] \in BeamCommands
                  /\ \A k \in j..i : plan[k] # "save"}
\* the positions of emitted after the last wait_for
AfterLastWait ==
    {k \in DOMAIN emitted :
        \A w \in DOMAIN emitted : emitted[w].cmd = "wait_for" => w < k}

\* C15: when a BeamSuspender suspension has lifted and the blocked
\* instruction is emitted, every trigger/create/read of the bundle that was
\* open (those since the last save) has been emitted again after the wait.
C15_BundleReplayed ==
    (cmd = BeamCmd /\ pc = "y_orig") =>
        \A j \in OpenBundle(cur) :
            \E k \in AfterLastWait : emitted[k] = UpMsg(j)

\* ------------------------------------------------------------- DropWrapper
\* One DropWrapper, the clock time.time() reads, and one consumer stepping
\* through plan_mutator(plan, self._msg_proc).  plan_mutator hands every
\* message it has not seen before to _msg_proc, the messages yielded by a
\* spliced generator included, and unpacks the pair _msg_proc returns.
MaxBundle == 3       \* longest upstream stream given to a DropWrapper
MaxTime == 2         \* the clock stops advancing here
MaxDepth == 2        \* generators _filter_save may stack on one another

DwCommands == {"trigger", "create", "read", "save"}
DwPlans == UNION {[1..n -> DwCommands] : n \in 0..MaxBundle}
ReadKeys == {"x", "y"}
\* what the consumer sends back for a read: a value for some of the keys
Readings == UNION {[S -> Values] : S \in (SUBSET ReadKeys) \ {{}}}
NoTime == -1         \* first_read_time / last_read_time / max_dt is None
MaxDts == {NoTime, 1}
\* filters=None, or one "is_bad_value" function for key x
FilterChoices == {[none |-> TRUE, keys |-> {}], [none |-> FALSE, keys |-> {"x"}]}
\* the configured function: a nonzero value is bad
is_bad_value(value) == value # 0

EmptyDict == [k \in {} |-> 0]

\* the object after __init__, before any create: ret and the read times
\* are attributes that do not exist yet
DwNew(m, f, p) ==
    [max_dt |-> m, filters |-> f, created |-> FALSE, ret |-> EmptyDict,
     first_read_time |-> NoTime, last_read_time |-> NoTime, clock |-> 0,
     plan |-> p, pos |-> 1, cur |-> 0, pc |-> "top", depth |-> 0,
     emitted |-> << >>]

DwMsg(d, i) == [src |-> "up", idx |-> i, cmd |-> d.plan[i]]
DwEnded == dw.pc \in {"done", "raised"}

\* _msg_proc: the consumer's position after plan_mutator has called it for
\* the upstream command c; any command but create/read/save makes it
\* return None, which plan_mutator cannot unpack
dw_msg_proc(c) ==
    CASE c = "create" -> "pass"
      [] c = "read" -> "cache_read"
      [] c = "save" -> "filter_save"
      [] OTHER -> "raised"

\* dict.update
DictUpdate(old, new) ==
    [k \in (DOMAIN old) \cup (DOMAIN new) |->
        IF k \in DOMAIN new THEN new[k] ELSE old[k]]

\* _filter_save up to its first yield from: what it is about to emit
\*   "error": None - None, or filt[value] on a function
\*   "drop" / "save": the message drop() / save() yields
filter_save(d) ==
    IF ~d.created \/ d.first_read_time = NoTime \/ d.last_read_time = NoTime
    THEN "error"
    ELSE IF d.max_dt # NoTime /\ d.last_read_time - d.first_read_time > d.max_dt
    THEN "drop"
    ELSE IF ~d.filters.none /\ d.filters.keys \cap DOMAIN d.ret # {}
    THEN "error"
    ELSE "save"

\* time passes
DwTick ==
    /\ ~DwEnded
    /\ dw.clock < MaxTime
    /\ dw' = [dw EXCEPT !.clock = @ + 1]
    /\ UNCHANGED <<base, suspects, egr, cc>>

\* plan_mutator pulls the next upstream message and calls _msg_proc; a
\* create resets the bundle's attributes
DwAdvance ==
    /\ dw.pc \in {"top", "y_up"}
    /\ dw.pos <= Len(dw.plan)
    /\ LET c == dw.plan[dw.pos]
           d == [dw EXCEPT !.cur = dw.pos, !.pos = @ + 1, !.depth = 0,
                           !.pc = dw_msg_proc(c)]
       IN dw' = IF c = "create"
                THEN [d EXCEPT !.created = TRUE, !.ret = EmptyDict,
                               !.first_read_time = NoTime,
                               !.last_read_time = NoTime]
                ELSE d
    /\ UNCHANGED <<base, suspects, egr, cc>>

\* _msg_proc returned (None, None): the message is yielded downstream
DwPass ==
    /\ dw.pc = "pass"
    /\ dw' = [dw EXCEPT !.emitted = Append(@, DwMsg(dw, dw.cur)),
                        !.pc = "y_up"]
    /\ UNCHANGED <<base, suspects, egr, cc>>

\* _cache_read up to its yield: note the time of the bundle's first read
\* and yield the read message, which plan_mutator has seen already
DwCacheReadStart ==
    /\ dw.pc = "cache_read"
    /\ dw' = IF ~dw.created
             THEN [dw EXCEPT !.pc = "raised"]
             ELSE [dw EXCEPT !.first_read_time =
                                 IF @ = NoTime THEN dw.clock ELSE @,
                             !.emitted = Append(@, DwMsg(dw, dw.cur)),
                             !.pc = "y_read"]
    /\ UNCHANGED <<base, suspects, egr, cc>>

\* _cache_read after its yield: buffer the reading, note the time
DwCacheReadEnd(reading) ==
    /\ dw.pc = "y_read"
    /\ dw' = [dw EXCEPT !.ret = DictUpdate(@, reading),
                        !.last_read_time = dw.clock,
                        !.pc = "top"]
    /\ UNCHANGED <<base, suspects, egr, cc>>

\* _filter_save runs to its first yield.  The message of drop() is new to
\* plan_mutator, _msg_proc returns None for it and the unpacking raises;
\* the message of save() is new as well and _msg_proc answers it with
\* another _filter_save, stacked on this one
DwFilterSave ==
    /\ dw.pc = "filter_save"
    /\ LET out == filter_save(dw)
       IN IF out = "save"
          THEN /\ dw.depth < MaxDepth
               /\ dw' = [dw EXCEPT !.depth = @ + 1]
          ELSE dw' = [dw EXCEPT !.pc = "raised"]
    /\ UNCHANGED <<base, suspects, egr, cc>>

\* the upstream stream is exhausted
DwExhaust ==
    /\ dw.pc \in {"top", "y_up"}
    /\ dw.pos > Len(dw.plan)
    /\ dw' = [dw EXCEPT !.pc = "done"]
    /\ UNCHANGED <<base, suspects, egr, cc>>

InitDW ==
    /\ SuspInit({[none |-> TRUE, of |-> {}]})
    /\ base = Absent
    /\ sigval = 0
    /\ egr = Absent
    /\ cc = Absent
    /\ dw \in {DwNew(m, f, p) : m \in MaxDts, f \in FilterChoices, p \in DwPlans}

NextDW ==
    \/ DwTick
    \/ DwAdvance
    \/ DwPass
    \/ DwCacheReadStart
    \/ \E reading \in Readings : DwCacheReadEnd(reading)
    \/ DwFilterSave
    \/ DwExhaust

SpecDW == InitDW /\ [][NextDW]_vars

\* the save at position j closes a bundle: a create, reads, then the save
DwBundleSave(j) ==
    /\ dw.plan[j] = "save"
    /\ \E i \in 1..(j - 1) :
          /\ dw.plan[i] = "create"
          /\ \A k \in (i + 1)..(j - 1) : dw.plan[k] = "read"
\* the terminal instructions emitted downstream for the save at position j
DwTerminals(j) ==
    SelectSeq(dw.emitted, LAMBDA m : m.cmd \in {"save", "drop"} /\ m.idx = j)
\* handling of the save at position j is over
DwSaveOver(j) ==
    /\ j \in 1..dw.cur
    /\ dw.plan[j] = "save"
    /\ j < dw.cur \/ dw.pc \in {"top", "y_up", "done", "raised"}
\* both read times of the current bundle are set
DwTimed ==
    dw.created /\ dw.first_read_time # NoTime /\ dw.last_read_time # NoTime
DwLong ==
    DwTimed /\ dw.max_dt # NoTime
            /\ dw.last_read_time - dw.first_read_time > dw.max_dt
DwBadKey ==
    \E key \in dw.filters.keys \cap DOMAIN dw.ret : is_bad_value(dw.ret[key])

\* C16: once the handling of a bundle's save is over, exactly one terminal
\* instruction, save or drop, has been emitted downstream for that bundle
\* and consumption has not ended in an error.
C16_OneTerminalPerBundle ==
    \A j \in 1..dw.cur :
        (DwBundleSave(j) /\ DwSaveOver(j)) =>
            /\ Len(DwTerminals(j)) = 1
            /\ dw.pc # "raised"

\* C17: with max_dt configured, once the handling of a save whose bundle
\* lasted longer than max_dt is over, a drop has been emitted in its place;
\* when the bundle did not last longer than max_dt or max_dt is None, no
\* drop is emitted unless a filter finds a bad value.
C17_DurationRule ==
    DwSaveOver(dw.cur) =>
        /\ DwLong => \E k \in DOMAIN DwTerminals(dw.cur) :
                        DwTerminals(dw.cur)[k].cmd = "drop"
        /\ (DwTimed /\ ~DwLong /\ ~DwBadKey) =>
               \A k \in DOMAIN DwTerminals(dw.cur) :
                   DwTerminals(dw.cur)[k].cmd # "drop"

\* C18: with filters configured and the bundle's duration within bound,
\* once the handling of a save is over a drop has been emitted in its place
\* if some filter key present in the buffered values has a bad value, and
\* the save has been emitted otherwise.
C18_FilterRule ==
    (DwSaveOver(dw.cur) /\ DwTimed /\ ~DwLong /\ ~dw.filters.none) =>
        /\ Len(DwTerminals(dw.cur)) = 1
        /\ DwTerminals(dw.cur)[1].cmd = IF DwBadKey THEN "drop" ELSE "save"

\* --------------------------------------------------- CallbackCounterFuture
\* One CallbackCounterFuture and the documents it is called with.
MaxCount == 2        \* largest max_count
MaxCalls == 4        \* calls made to one counter

DetNames == {"a", "b"}
\* detectors omitted, or a nonempty list of detectors
DetChoices ==
    {[none |-> TRUE, tally |-> EmptyDict]} \cup
    {[none |-> FALSE, tally |-> [n \in S |-> 0]] :
        S \in (SUBSET DetNames) \ {{}}}
\* a document without 'data' (start, descriptor, stop), or an event whose
\* 'data' holds some of the names
Docs ==
    {[hasdata |-> FALSE, data |-> {}]} \cup
    {[hasdata |-> TRUE, data |-> S] : S \in SUBSET DetNames}
NoResult == [kind |-> "none", n |-> 0]

\* the object after __init__; seen, met and nonevents are history: the
\* number of calls whose doc['data'] held each detector's name, whether the
\* threshold condition was met at some call, and the number of calls whose
\* doc had no 'data'
CcNew(m, d) ==
    [max_count |-> m, dets |-> d, value |-> 0, future |-> "None",
     result |-> NoResult, invalid |-> FALSE, raised |-> FALSE,
     seen |-> d.tally, met |-> FALSE, nonevents |-> 0, pc |-> "ready"]

\* ensure_future
ensure_future(c) ==
    IF c.future = "None" THEN [c EXCEPT !.future = "pending"] ELSE c

\* Future.set_result: InvalidStateError on a future that is done
set_result(c, r) ==
    IF c.future = "done"
    THEN [c EXCEPT !.invalid = TRUE]
    ELSE [c EXCEPT !.future = "done", !.result = r]

cc_not_done_always(c) == TRUE

\* not self.future.done()
cc_not_done(c) == c.future # "done"

dets_reached_any(t, m) == \E n \in DOMAIN t : t[n] >= m

\* all(val >= self.max_count for val in self.dets.values())
dets_reached(t, m) == \A n \in DOMAIN t : t[n] >= m

\* the for loop over self.dets.keys()
count_dets(t, data) ==
    [n \in DOMAIN t |-> IF n \in data THEN t[n] + 1 ELSE t[n]]

on_key_error_raise(c) == [c EXCEPT !.raised = TRUE]

\* except KeyError: log and return
on_key_error(c) == c

\* __call__(name, doc), without the history
call(c0, doc) ==
    LET c == ensure_future([c0 EXCEPT !.value = @ + 1])
    IN IF ~cc_not_done(c) THEN c
       ELSE IF c.dets.none
       THEN IF c.value >= c.max_count
            THEN set_result(c, [kind |-> "reached", n |-> c.value])
            ELSE c
       ELSE IF ~doc.hasdata THEN on_key_error(c)
       ELSE LET t == count_dets(c.dets.tally, doc.data)
                c1 == [c EXCEPT !.dets.tally = t]
            IN IF dets_reached(t, c.max_count)
               THEN set_result(c1, [kind |-> "all", n |-> c.max_count])
               ELSE c1

\* the threshold condition of a counter as the calls made so far define it
Threshold(c) ==
    IF c.dets.none THEN c.value >= c.max_count
    ELSE \A n \in DOMAIN c.seen : c.seen[n] >= c.max_count

CcCall(doc) ==
    /\ cc.value < MaxCalls
    /\ LET c == call(cc, doc)
           s == IF doc.hasdata THEN count_dets(cc.seen, doc.data) ELSE cc.seen
           h == [c EXCEPT !.seen = s,
                          !.nonevents = IF doc.hasdata THEN @ ELSE @ + 1]
       IN cc' = [h EXCEPT !.met = @ \/ Threshold(h)]
    /\ UNCHANGED <<base, suspects, egr, dw>>

InitCC ==
    /\ SuspInit({[none |-> TRUE, of |-> {}]})
    /\ base = Absent
    /\ sigval = 0
    /\ egr = Absent
    /\ dw = Absent
    /\ cc \in {CcNew(m, d) : m \in 1..MaxCount, d \in DetChoices}

NextCC == \E doc \in Docs : CcCall(doc)

SpecCC == InitCC /\ [][NextCC]_vars

\* C19: after at least one call the future is resolved if and only if the
\* threshold condition (uncategorized: calls >= max_count; categorized:
\* every detector named in max_count or more documents' data) has been met
\* at the current or an earlier call; max_count >= 1, at least one detector.
C19_ResolvedIffThresholdMet ==
    cc.value >= 1 => ((cc.future = "done") <=> cc.met)

\* detectors a and b: a had reached max_count and been counted once more
\* while b was short; the call bringing b to max_count resolved the future
C19_Witness ==
    /\ ~cc.dets.none
    /\ DOMAIN cc.dets.tally = {"a", "b"}
    /\ cc.future = "done"
    /\ cc.dets.tally["a"] > cc.max_count
    /\ cc.dets.tally["b"] = cc.max_count

\* C20: once the future is resolved, a further call leaves it resolved,
\* with the same result, and raises no error.
C20_NoSecondResolution ==
    [][cc.future = "done" =>
          /\ cc'.future = "done"
          /\ cc'.result = cc.result
          /\ ~cc'.invalid]_vars

\* calls were made after the one that resolved the future
C20_Witness ==
    /\ cc.future = "done"
    /\ ~cc.invalid
    /\ \/ cc.dets.none /\ cc.value > cc.result.n
       \/ ~cc.dets.none /\ \E n \in DOMAIN cc.seen : cc.seen[n] > cc.dets.tally[n]

NoData == [hasdata |-> FALSE, data |-> {}]

\* C21: in categorized mode a call whose doc has no 'data' raises no error,
\* leaves every per-detector tally unchanged and leaves the future resolved
\* or unresolved as it was, with the same result.
C21_NonEventIgnored ==
    [][(~cc.dets.none /\ CcCall(NoData)) =>
          /\ ~cc'.raised
          /\ ~cc'.invalid
          /\ cc'.dets.tally = cc.dets.tally
          /\ (cc'.future = "done") = (cc.future = "done")
          /\ cc'.result = cc.result]_vars

\* a categorized counter that has counted events, is unresolved and has
\* been called with a doc without 'data'
C21_Witness ==
    /\ ~cc.dets.none
    /\ cc.nonevents >= 1
    /\ cc.future = "pending"
    /\ \E n \in DOMAIN cc.dets.tally : cc.dets.tally[n] >= 1

\* ------------------------------------------- SuspendPreprocessor, base class
\* One SuspendPreprocessor(None) of the base class, which does not override
\* should_suspend, and the calls made to its two predicates.
MaxProbes == 4       \* calls made to the base watcher's predicates

NoneValue == -1      \* the value None
BaseValues == {NoneValue} \cup Values

base_should_suspend_false(value) == [raised |-> "no", ret |-> FALSE]

\* SuspendPreprocessor.should_suspend: raise NotImplementedError()
base_should_suspend(value) == [raised |-> "NotImplementedError", ret |-> FALSE]

\* SuspendPreprocessor.should_resume: not self.should_suspend(value)
base_should_resume(value) ==
    LET r == base_should_suspend(value)
    IN IF r.raised # "no" THEN r ELSE [raised |-> "no", ret |-> ~r.ret]

BaseShouldSuspend(value) ==
    /\ Len(base.log) < MaxProbes
    /\ base' = [base EXCEPT !.log = Append(@,
                   [op |-> "should_suspend", value |-> value,
                    out |-> base_should_suspend(value)])]
    /\ UNCHANGED <<suspects, egr, dw, cc>>

BaseShouldResume(value) ==
    /\ Len(base.log) < MaxProbes
    /\ base' = [base EXCEPT !.log = Append(@,
                   [op |-> "should_resume", value |-> value,
                    out |-> base_should_resume(value)])]
    /\ UNCHANGED <<suspects, egr, dw, cc>>

InitBase ==
    /\ SuspInit({[none |-> TRUE, of |-> {}]})
    /\ sigval = 0
    /\ egr = Absent
    /\ dw = Absent
    /\ cc = Absent
    /\ base = [pc |-> "ready", log |-> << >>]

NextBase ==
    \/ \E value \in BaseValues : BaseShouldSuspend(value)
    \/ \E value \in BaseValues : BaseShouldResume(value)

SpecBase == InitBase /\ [][NextBase]_vars

\* C22: every call of should_suspend on a watcher of the base class fails
\* with NotImplementedError, whatever the value.
C22_NeedsOverride ==
    \A i \in DOMAIN base.log :
        base.log[i].op = "should_suspend" =>
            base.log[i].out.raised = "NotImplementedError"

\* should_suspend has been called with None and with a nonzero value
C22_Witness ==
    /\ \E i \in DOMAIN base.log :
          base.log[i].op = "should_suspend" /\ base.log[i].value = NoneValue
    /\ \E i \in DOMAIN base.log :
          base.log[i].op = "should_suspend" /\ base.log[i].value = 1

\* ------------------------------------- SuspendPreprocessor, further claims
\* C23: while _suspend_active is true _msg_proc returns pass-through for
\* every instruction, the wait instruction and the watched ones included,
\* and _suspend_active is true only between the start of a spliced sequence
\* and the completion of its wait.
C23_OneActiveSequence ==
    suspend_active =>
        /\ \A c \in Commands \cup BundleCommands \cup {"wait_for"} : ~msg_proc(c)
        /\ pc = "y_wait"

\* C24: a notification that neither resumes a suspended watcher nor
\* suspends a running one changes nothing of the watcher; one that resumes
\* a suspended watcher clears the suspended flag and starts one hold-down
\* worker, and leaves the cell as it is.
C24_UpdateFrame ==
    [][(subid # None /\ \E v \in Values : Put(v)) =>
          LET v == sigval'
          IN /\ ((suspend_ev /\ ~should_resume(v)) \/
                 (~suspend_ev /\ ~should_suspend(v)))
                    => UNCHANGED <<suspend_ev, ok_future, ncells, done,
                                   invalid, workers, suspend_active>>
             /\ (suspend_ev /\ should_resume(v))
                    => /\ ~suspend_ev'
                       /\ workers' = [workers EXCEPT !.sched = @ + 1]
                       /\ UNCHANGED <<ok_future, ncells, done, invalid,
                                      suspend_active>>]_vars

\* a resume notification was delivered to a suspended watcher: the flag is
\* clear, a hold-down worker is scheduled, the cell is still unresolved
C24_Witness ==
    /\ subid # None
    /\ ~suspend_ev
    /\ workers.sched >= 1
    /\ ok_future \notin done

\* C27: no watched upstream instruction is emitted while the current cell
\* is unresolved: none is passed through by a decision taken while the cell
\* is unresolved, and the original instruction of a suspension sequence is
\* not re-emitted while the cell is unresolved.
C27_NoWatchedWhileUnresolved ==
    [][/\ (Advance /\ Watched(plan[pos]) /\ ok_future \notin done)
              => pc' # "pass"
       /\ (ReEmit /\ Watched(plan[cur])) => ok_future \in done]_vars

\* C28: when no stream is being consumed, after an abort during the wait
\* included, _suspend_active is False.
C28_AbortResetsActive == pc = "idle" => ~suspend_active

\* ----------------------------------------- EnsureGoodReads, further claims
\* C25: in every sequence of ok_cb notifications and every interleaving
\* with the ok_thread workers, set_result is never invoked on a future that
\* is already resolved.
C25_SetResultAtMostOnce == ~egr.invalid

\* no bundle is open when instruction cur is handled: every create so far
\* has been followed by a save or a drop, so executing a drop would fail
EgrNoBundle ==
    \A j \in 1..egr.cur :
        egr.plan[j] = "create" =>
            \E k \in (j + 1)..egr.cur : egr.plan[k] \in {"save", "drop"}

\* C26: when the drop of a drop-and-retry sequence fails because no bundle
\* is open, the error is swallowed and nothing propagates to the consumer:
\* consumption does not end with an error.
C26_DropErrorSwallowed == EgrNoBundle => egr.pc # "raised"

\* ---------------------------------------------- DropWrapper, further claims
\* C29: for an instruction whose command is not create, read or save,
\* _msg_proc returns a pass-through decision, so the instruction goes on
\* to be emitted unchanged, and the buffered bundle state stays as it is.
C29_OthersPassThrough ==
    [][(DwAdvance /\ dw.plan[dw.pos] \notin {"create", "read", "save"}) =>
          /\ dw'.pc = "pass"
          /\ dw'.ret = dw.ret
          /\ dw'.created = dw.created
          /\ dw'.first_read_time = dw.first_read_time
          /\ dw'.last_read_time = dw.last_read_time]_vars
====
